---- MODULE Spec2Model ----
(***************************************************************************)
(* Model of nltk/tokenize/regexp.py: RegexpTokenizer, its preset           *)
(* subclasses and regexp_tokenize.                                         *)
(*                                                                         *)
(* A pattern and a text are sequences of one-character strings.  A token   *)
(* is a sequence of one-character strings; a token list is a sequence of   *)
(* tokens.  The Python objects that are not strings (None, a tuple of      *)
(* groups) are encoded as sequences that start with a marker string of     *)
(* more than one character, which no text can contain.                     *)
(*                                                                         *)
(* The regular expression engine is the one of Python 2 (the module uses   *)
(* the "except re.error, e" syntax): sre_parse for compilation, and the    *)
(* backtracking matcher with pattern_findall / pattern_split of _sre.c.    *)
(* Scope of the pattern language: literals, ".", the escapes \w \s \n \t   *)
(* and escaped punctuation, character classes of literals and escapes,     *)
(* capturing and (?:...) groups, "|", and the repeats * + ? (greedy or     *)
(* lazy).  No pattern of the model has a parenthesis inside a character    *)
(* class, an anchor, a look-around, a named group, a back-reference or a  *)
(* repeated group whose body can match the empty string.                   *)
(***************************************************************************)
EXTENDS Naturals, Integers, Sequences, FiniteSets, TLC

\* ------------------------------------------------------------------------
\* Bounds
\* ------------------------------------------------------------------------
MaxLen == 4
MaxCallLen == 1
MaxCalls == 2

\* ------------------------------------------------------------------------
\* Characters
\* ------------------------------------------------------------------------
Lower == {"a","b","c","d","e","f","g","h","i","j","k","l","m",
          "n","o","p","q","r","s","t","u","v","w","x","y","z"}
Upper == {"A","B","C","D","E","F","G","H","I","J","K","L","M",
          "N","O","P","Q","R","S","T","U","V","W","X","Y","Z"}
Digits == {"0","1","2","3","4","5","6","7","8","9"}
WordChars == Lower \cup Upper \cup Digits \cup {"_"}
SpaceChars == {" ", "\t", "\n", "\r", "\f"}

\* Encodings of the Python values None and tuple.
NoneTok == <<"<None>">>
TupleMark == "<tuple>"
TupleSep == "<,>"

\* Flags of the re module that the tokenizer passes to re.compile.
DefaultFlags == {"UNICODE", "MULTILINE", "DOTALL"}

Last(s) == s[Len(s)]
Front(s) == SubSeq(s, 1, Len(s) - 1)

\* text[s:e] with 0-based offsets, as Python slices.
Slice(text, s, e) == SubSeq(text, s + 1, e)

\* ------------------------------------------------------------------------
\* convert_regexp_to_nongrouping (nltk.internals)
\* ------------------------------------------------------------------------
\* TRUE iff the "(" at index i of p already carries a non-capturing or
\* named-group marker: ?:  ?=  ?!  ?<=  ?<!  ?P<
HasMarker(p, i) ==
    /\ i + 2 <= Len(p)
    /\ p[i + 1] = "?"
    /\ \/ p[i + 2] \in {":", "=", "!"}
       \/ /\ i + 3 <= Len(p)
          /\ \/ p[i + 2] = "<" /\ p[i + 3] \in {"=", "!"}
             \/ p[i + 2] = "P" /\ p[i + 3] = "<"

RECURSIVE Nongrouping(_, _)
Nongrouping(p, i) ==
    IF i > Len(p) THEN <<>>
    ELSE IF p[i] = "\\" /\ i < Len(p)
         THEN <<p[i], p[i + 1]>> \o Nongrouping(p, i + 2)
    ELSE IF p[i] = "(" /\ ~HasMarker(p, i)
         THEN <<"(", "?", ":">> \o Nongrouping(p, i + 1)
    ELSE <<p[i]>> \o Nongrouping(p, i + 1)

convert_regexp_to_nongrouping(p) == Nongrouping(p, 1)

\* ------------------------------------------------------------------------
\* re.compile: sre_parse of Python 2
\* ------------------------------------------------------------------------
\* Nodes of a parsed pattern.
Lit(c) == [op |-> "set", neg |-> FALSE, lits |-> {c}, cats |-> {}]
Cat(k) == [op |-> "set", neg |-> FALSE, lits |-> {}, cats |-> {k}]
AnyChar == [op |-> "any"]
Seqn(items) == [op |-> "cat", items |-> items]
Alt(items) == [op |-> "alt", items |-> items]
Rep(body, min, max, greedy) ==
    [op |-> "rep", body |-> body, min |-> min, max |-> max, greedy |-> greedy]
Grp(idx, body) == [op |-> "grp", idx |-> idx, body |-> body]

\* Result of a parsing step: err = "" on success.
POk(node, pos, g) == [err |-> "", node |-> node, pos |-> pos, g |-> g]
PErr(msg) == [err |-> msg, node |-> AnyChar, pos |-> 0, g |-> 0]

\* The code of an escape sequence "\c".
Escape(c) ==
    IF c = "w" THEN Cat("word")
    ELSE IF c = "s" THEN Cat("space")
    ELSE IF c = "n" THEN Lit("\n")
    ELSE IF c = "t" THEN Lit("\t")
    ELSE Lit(c)

\* The items of a character class, from index i up to the closing "]".
RECURSIVE ParseClass(_, _, _, _, _)
ParseClass(p, i, neg, lits, cats) ==
    IF i > Len(p) THEN PErr("unexpected end of regular expression")
    ELSE IF p[i] = "]"
         THEN POk([op |-> "set", neg |-> neg, lits |-> lits, cats |-> cats],
                  i + 1, 0)
    ELSE IF p[i] = "\\"
         THEN IF i = Len(p) THEN PErr("bogus escape (end of line)")
              ELSE ParseClass(p, i + 2, neg,
                              lits \cup Escape(p[i + 1]).lits,
                              cats \cup Escape(p[i + 1]).cats)
    ELSE ParseClass(p, i + 1, neg, lits \cup {p[i]}, cats)

RECURSIVE ParseSub(_, _, _, _, _)
RECURSIVE ParseItems(_, _, _, _)

\* A repeat operator at index i: it applies to the last item of acc; a "?"
\* after it makes it lazy.
ParseRepeat(p, i, g, acc) ==
    IF acc = <<>> THEN PErr("nothing to repeat")
    ELSE IF Last(acc).op = "rep" THEN PErr("multiple repeat")
    ELSE IF i + 1 <= Len(p) /\ p[i + 1] = "?"
         THEN POk(Append(Front(acc),
                         Rep(Last(acc), IF p[i] = "+" THEN 1 ELSE 0,
                             IF p[i] = "?" THEN 1 ELSE 2, FALSE)),
                  i + 2, g)
    ELSE POk(Append(Front(acc),
                    Rep(Last(acc), IF p[i] = "+" THEN 1 ELSE 0,
                        IF p[i] = "?" THEN 1 ELSE 2, TRUE)),
             i + 1, g)

\* The end of a group whose body b is parsed: ")" must follow.
CloseGroup(p, acc, idx, b) ==
    IF b.err # "" THEN b
    ELSE IF b.pos > Len(p) \/ p[b.pos] # ")"
         THEN PErr("unbalanced parenthesis")
    ELSE POk(Append(acc, Grp(idx, b.node)), b.pos + 1, b.g)

\* A group that opens at index i: "(?:" opens a non-capturing group, "("
\* alone the capturing group of the next number.
ParseGroup(p, i, g, acc) ==
    IF i + 1 <= Len(p) /\ p[i + 1] = "?"
    THEN IF i + 2 > Len(p) THEN PErr("unexpected end of pattern")
         ELSE IF p[i + 2] # ":" THEN PErr("unknown extension")
         ELSE CloseGroup(p, acc, 0, ParseSub(p, i + 3, g, TRUE, <<>>))
    ELSE CloseGroup(p, acc, g + 1, ParseSub(p, i + 1, g + 1, TRUE, <<>>))

\* The class parsed as r becomes the next item.
AddClass(acc, g, r) ==
    IF r.err # "" THEN r ELSE POk(Append(acc, r.node), r.pos, g)

\* One step of _parse at index i: the items so far with the next one added
\* (in the node field), and the index after it.
ParseItem(p, i, g, acc) ==
    IF p[i] \in {"*", "+", "?"} THEN ParseRepeat(p, i, g, acc)
    ELSE IF p[i] = "." THEN POk(Append(acc, AnyChar), i + 1, g)
    ELSE IF p[i] = "["
         THEN IF i + 1 <= Len(p) /\ p[i + 1] = "^"
              THEN AddClass(acc, g, ParseClass(p, i + 2, TRUE, {}, {}))
              ELSE AddClass(acc, g, ParseClass(p, i + 1, FALSE, {}, {}))
    ELSE IF p[i] = "(" THEN ParseGroup(p, i, g, acc)
    ELSE IF p[i] = "\\"
         THEN IF i = Len(p) THEN PErr("bogus escape (end of line)")
              ELSE POk(Append(acc, Escape(p[i + 1])), i + 2, g)
    ELSE POk(Append(acc, Lit(p[i])), i + 1, g)

\* The rest of the branch after the step r.
MoreItems(p, r) ==
    IF r.err # "" THEN r ELSE ParseItems(p, r.pos, r.g, r.node)

\* _parse: the items of one branch, up to "|", ")" or the end.
ParseItems(p, i, g, acc) ==
    IF i > Len(p) \/ p[i] \in {"|", ")"} THEN POk(Seqn(acc), i, g)
    ELSE MoreItems(p, ParseItem(p, i, g, acc))

\* The branches after the branch parsed as r: one more after "|".
MoreBranches(p, nested, acc, r) ==
    IF r.err # "" THEN r
    ELSE IF r.pos <= Len(p) /\ p[r.pos] = "|"
         THEN ParseSub(p, r.pos + 1, r.g, nested, Append(acc, r.node))
    ELSE IF acc = <<>> THEN r
    ELSE POk(Alt(Append(acc, r.node)), r.pos, r.g)

\* _parse_sub: the branches of an alternation.
ParseSub(p, i, g, nested, acc) ==
    MoreBranches(p, nested, acc, ParseItems(p, i, g, <<>>))

\* The tail that sre_parse.parse finds after the outermost _parse_sub.
CheckTail(p, r) ==
    IF r.err # "" THEN r
    ELSE IF r.pos <= Len(p)
         THEN IF p[r.pos] = ")" THEN PErr("unbalanced parenthesis")
              ELSE PErr("bogus characters at end of regular expression")
    ELSE r

\* sre_parse.parse
Parse(p) == CheckTail(p, ParseSub(p, 1, 0, FALSE, <<>>))

\* The value of self._regexp before compilation.
NoRegexp == [compiled |-> FALSE, ast |-> AnyChar, groups |-> 0, flags |-> {}]

\* re.compile(pattern, flags): a pattern object, or the message of re.error.
re_compile(p, flags) ==
    LET r == Parse(p)
    IN  IF r.err # "" THEN [err |-> r.err, regexp |-> NoRegexp]
        ELSE [err |-> "",
              regexp |-> [compiled |-> TRUE, ast |-> r.node,
                          groups |-> r.g, flags |-> flags]]

\* ------------------------------------------------------------------------
\* The matcher (SRE_MATCH, SRE_SEARCH of _sre.c)
\* ------------------------------------------------------------------------
\* A match state: pos characters of the text are consumed, caps[k] is the
\* span <<start, end>> of group k, or NoSpan while group k has not matched.
NoSpan == <<-1, -1>>
St(pos, caps) == [pos |-> pos, caps |-> caps]

CharIn(c, node, flags) ==
    IF node.op = "any" THEN "DOTALL" \in flags \/ c # "\n"
    ELSE LET in == \/ c \in node.lits
                   \/ "word" \in node.cats /\ c \in WordChars
                   \/ "space" \in node.cats /\ c \in SpaceChars
         IN  in # node.neg

\* Matches(node, text, st, flags): the states in which a match of node that
\* starts in state st can end, in the order in which backtracking tries them.
RECURSIVE Matches(_, _, _, _)
RECURSIVE MatchSeq(_, _, _, _, _)
RECURSIVE MatchAlt(_, _, _, _, _)
RECURSIVE MatchRep(_, _, _, _, _)
RECURSIVE FlatSeq(_, _, _, _, _, _)
RECURSIVE FlatRep(_, _, _, _, _, _, _)

\* The items from index k on, started in each state of sts in turn.
FlatSeq(items, k, text, sts, j, flags) ==
    IF j > Len(sts) THEN <<>>
    ELSE MatchSeq(items, k, text, sts[j], flags)
         \o FlatSeq(items, k, text, sts, j + 1, flags)

MatchSeq(items, k, text, st, flags) ==
    IF k > Len(items) THEN <<st>>
    ELSE FlatSeq(items, k + 1, text,
                 Matches(items[k], text, st, flags), 1, flags)

MatchAlt(items, k, text, st, flags) ==
    IF k > Len(items) THEN <<>>
    ELSE Matches(items[k], text, st, flags)
         \o MatchAlt(items, k + 1, text, st, flags)

\* One more iteration of the body from each state of sts; an iteration that
\* consumed nothing ends the repetition.
FlatRep(node, min, text, from, sts, j, flags) ==
    IF j > Len(sts) THEN <<>>
    ELSE (IF sts[j].pos > from.pos
          THEN MatchRep(node, 0, text, sts[j], flags)
          ELSE IF min > 0 THEN <<sts[j]>> ELSE <<>>)
         \o FlatRep(node, min, text, from, sts, j + 1, flags)

MatchRep(node, min, text, st, flags) ==
    LET body == Matches(node.body, text, st, flags)
        more == IF node.max = 1 THEN body
                ELSE FlatRep(node, min, text, st, body, 1, flags)
        stop == IF min = 0 THEN <<st>> ELSE <<>>
    IN  IF node.greedy THEN more \o stop ELSE stop \o more

RECURSIVE SetCaps(_, _, _, _)
SetCaps(sts, j, idx, start) ==
    IF j > Len(sts) THEN <<>>
    ELSE <<St(sts[j].pos,
              [sts[j].caps EXCEPT ![idx] = <<start, sts[j].pos>>])>>
         \o SetCaps(sts, j + 1, idx, start)

Matches(node, text, st, flags) ==
    IF node.op \in {"set", "any"}
    THEN IF st.pos < Len(text) /\ CharIn(text[st.pos + 1], node, flags)
         THEN <<St(st.pos + 1, st.caps)>>
         ELSE <<>>
    ELSE IF node.op = "cat" THEN MatchSeq(node.items, 1, text, st, flags)
    ELSE IF node.op = "alt" THEN MatchAlt(node.items, 1, text, st, flags)
    ELSE IF node.op = "rep" THEN MatchRep(node, node.min, text, st, flags)
    ELSE LET body == Matches(node.body, text, st, flags)
         IN  IF node.idx = 0 THEN body
             ELSE SetCaps(body, 1, node.idx, st.pos)

NoMatch == [found |-> FALSE, s |-> 0, e |-> 0, caps |-> <<>>]

\* regexp.search(text, start): the leftmost match that starts at or after
\* offset start, the first one in backtracking order at that offset.
RECURSIVE Search(_, _, _)
Search(regexp, text, start) ==
    IF start > Len(text) THEN NoMatch
    ELSE LET r == Matches(regexp.ast, text,
                          St(start, [k \in 1..regexp.groups |-> NoSpan]),
                          regexp.flags)
         IN  IF r # <<>>
             THEN [found |-> TRUE, s |-> start, e |-> r[1].pos,
                   caps |-> r[1].caps]
             ELSE Search(regexp, text, start + 1)

\* The text of group k of match m: '' in findall and None in split when the
\* group took no part in the match.
GroupText(text, m, k, unset) ==
    IF m.caps[k] = NoSpan THEN unset
    ELSE Slice(text, m.caps[k][1], m.caps[k][2])

RECURSIVE GroupTuple(_, _, _)
GroupTuple(text, m, k) ==
    IF k > Len(m.caps) THEN <<>>
    ELSE (IF k = 1 THEN <<TupleMark>> ELSE <<TupleSep>>)
         \o GroupText(text, m, k, <<>>) \o GroupTuple(text, m, k + 1)

RECURSIVE GroupList(_, _, _)
GroupList(text, m, k) ==
    IF k > Len(m.caps) THEN <<>>
    ELSE <<GroupText(text, m, k, NoneTok)>> \o GroupList(text, m, k + 1)

\* pattern_findall: the spans <<start, end>> of the successive matches.  The
\* scan resumes at the end of a match, one character further after an empty
\* match.
RECURSIVE MatchList(_, _, _)
MatchList(regexp, text, start) ==
    LET m == Search(regexp, text, start)
    IN  IF ~m.found THEN <<>>
        ELSE <<m>> \o MatchList(regexp, text,
                                IF m.e = m.s THEN m.e + 1 ELSE m.e)

\* The item findall returns for a match: the whole match when the pattern
\* has no group, the group when it has one, a tuple of the groups otherwise.
FindallItem(regexp, text, m) ==
    IF regexp.groups = 0 THEN Slice(text, m.s, m.e)
    ELSE IF regexp.groups = 1 THEN GroupText(text, m, 1, <<>>)
    ELSE GroupTuple(text, m, 1)

findall(regexp, text) ==
    LET ms == MatchList(regexp, text, 0)
    IN  [j \in 1..Len(ms) |-> FindallItem(regexp, text, ms[j])]

\* pattern_split of Python 2: an empty match never splits, the scan skips
\* one character after it; the groups of a delimiter follow the piece that
\* precedes it.
RECURSIVE SplitFrom(_, _, _, _)
SplitFrom(regexp, text, last, start) ==
    LET m == Search(regexp, text, start)
    IN  IF ~m.found THEN <<Slice(text, last, Len(text))>>
        ELSE IF m.s = m.e
             THEN IF last = Len(text) THEN <<Slice(text, last, Len(text))>>
                  ELSE SplitFrom(regexp, text, last, m.e + 1)
        ELSE <<Slice(text, last, m.s)>> \o GroupList(text, m, 1)
             \o SplitFrom(regexp, text, m.e, m.e)

split(regexp, text) == SplitFrom(regexp, text, 0, 0)

\* [tok for tok in toks if tok]
RECURSIVE IfTok(_)
IfTok(toks) ==
    IF toks = <<>> THEN <<>>
    ELSE (IF Head(toks) # <<>> THEN <<Head(toks)>> ELSE <<>>)
         \o IfTok(Tail(toks))

\* Variant: the empty tokens are discarded whatever discard_empty is.
TokenizeResultAlwaysDiscard(regexp, gaps, discard_empty, text) ==
    IF gaps THEN IfTok(split(regexp, text)) ELSE findall(regexp, text)

\* Variant: the test of self._gaps is inverted.
TokenizeResultInverted(regexp, gaps, discard_empty, text) ==
    IF ~gaps
    THEN IF discard_empty THEN IfTok(split(regexp, text))
         ELSE split(regexp, text)
    ELSE findall(regexp, text)

\* Variant: discard_empty is ignored.
TokenizeResultNeverDiscard(regexp, gaps, discard_empty, text) ==
    IF gaps THEN split(regexp, text) ELSE findall(regexp, text)

\* The value RegexpTokenizer.tokenize returns for a tokenizer with the given
\* fields.
TokenizeResult(regexp, gaps, discard_empty, text) ==
    IF gaps
    THEN IF discard_empty THEN IfTok(split(regexp, text))
         ELSE split(regexp, text)
    ELSE findall(regexp, text)

\* ------------------------------------------------------------------------
\* Inputs
\* ------------------------------------------------------------------------
Alphabet == {"a", "b", " ", "\n"}

RECURSIVE SeqsUpTo(_, _)
SeqsUpTo(S, n) ==
    IF n = 0 THEN {<<>>}
    ELSE LET shorter == SeqsUpTo(S, n - 1)
         IN  shorter \cup {Append(t, c) : t \in shorter, c \in S}

TextAbc == <<"a","b","c">>
TextShe == <<"S","h","e"," ","s","a","i","d"," ","'","h","e","l","l","o",
             "'",".">>
TextPara == <<"p","a","r","a"," ","o","n","e","\n","\n",
              "p","a","r","a"," ","t","w","o","\n"," ","\n",
              "p","a","r","a"," ","t","h","r","e","e">>
TextTabs == <<"a","\n","\t"," ","\n","b">>
Examples == {TextAbc, TextShe, TextPara, TextTabs}

Texts == SeqsUpTo(Alphabet, MaxLen) \cup Examples
CallTexts == SeqsUpTo(Alphabet, MaxCallLen) \cup Examples

\* The patterns of the preset tokenizers.
WhitespacePattern == <<"\\","s","+">>
\* Variant: a blank line holds no character at all.
BlanklinePatternStrict == <<"\\","s","*","\\","n","\\","n","\\","s","*">>
BlanklinePattern == <<"\\","s","*","\\","n","\\","s","*","\\","n","\\","s","*">>
\* Variant: one punctuation character per token.
WordPunctPatternSingle == <<"\\","w","+","|","[","^","\\","w","\\","s","]">>
WordPunctPattern == <<"\\","w","+","|","[","^","\\","w","\\","s","]","+">>
WordPattern == <<"\\","w","+">>

\* Patterns that compile.
GoodPatterns ==
    { <<"a">>, <<"a","+">>, <<"a","*">>, <<"a","|","b">>, <<"|","a">>,
      <<"a",".","b">>, <<"a","+","?">>,
      <<"(","a",")","(","b",")">>, <<"(","a",")","(","b",")","(","c",")">>,
      <<"a","(","b",")">>, <<"(","a","|","b",")","+">>,
      <<"(","(","a",")","b",")">>, <<"(","?",":","a",")","b">>,
      <<"(","a",")","?","b">>, <<"(","a","*",")","b">>,
      <<"\\","s","(","\\","n",")">>,
      WhitespacePattern, BlanklinePattern, WordPunctPattern, WordPattern }

\* Patterns that re.compile rejects.
BadPatterns ==
    { <<"(","u","n","b","a","l","a","n","c","e","d">>, <<"a",")">>,
      <<"(","a","(","b",")">>, <<"*">>, <<"(","*",")">>, <<"a","*","*">>,
      <<"[","a">>, <<"a","\\">> }

Patterns == GoodPatterns \cup BadPatterns
FlagSets == {DefaultFlags, {}}

\* ------------------------------------------------------------------------
\* State
\* ------------------------------------------------------------------------
VARIABLES
    pc,              \* "new": nothing constructed; "ready": the caller holds
                     \* a tokenizer; "failed": the constructor raised;
                     \* "oneshot": regexp_tokenize returned
    calls,           \* number of tokenize calls made on the tokenizer
    cls,             \* self.__class__.__name__
    _pattern,        \* self._pattern
    _gaps,           \* self._gaps
    _discard_empty,  \* self._discard_empty
    _flags,          \* self._flags
    _regexp,         \* self._regexp
    text,            \* the argument of the (next or last) tokenize call
    result,          \* the list the last call returned
    raised           \* the exception the last call raised

fields == <<cls, _pattern, _gaps, _discard_empty, _flags, _regexp>>
vars == <<pc, calls, cls, _pattern, _gaps, _discard_empty, _flags, _regexp,
          text, result, raised>>

NoError == [type |-> "", pattern |-> <<>>, msg |-> ""]
ValueError(pattern, msg) ==
    [type |-> "ValueError", pattern |-> pattern, msg |-> msg]
AttributeError ==
    [type |-> "AttributeError", pattern |-> <<>>,
     msg |-> "'NoneType' object has no attribute"]

NoObject ==
    /\ cls = ""
    /\ _pattern = <<>>
    /\ _gaps = FALSE
    /\ _discard_empty = FALSE
    /\ _flags = {}
    /\ _regexp = NoRegexp

Init ==
    /\ pc = "new"
    /\ calls = 0
    /\ NoObject
    /\ text = <<>>
    /\ result = <<>>
    /\ raised = NoError

\* The inputs of one application of tokenize are drawn here.
InitPure ==
    /\ pc = "new"
    /\ calls = 0
    /\ NoObject
    /\ text \in Texts
    /\ result = <<>>
    /\ raised = NoError

\* ------------------------------------------------------------------------
\* Operations
\* ------------------------------------------------------------------------
\* Variant: the pattern is compiled as given, with its grouping parentheses.
RegexpTokenizer__init__Grouping(c, pattern, gaps, discard_empty, flags) ==
    LET r == re_compile(pattern, flags)
    IN  /\ pc = "new"
        /\ cls' = c
        /\ _pattern' = pattern
        /\ _gaps' = gaps
        /\ _discard_empty' = discard_empty
        /\ _flags' = flags
        /\ _regexp' = r.regexp
        /\ IF r.err = ""
           THEN pc' = "ready" /\ raised' = NoError
           ELSE pc' = "failed" /\ raised' = ValueError(pattern, r.err)
        /\ UNCHANGED <<calls, text, result>>

\* Variant: the error message shows the pattern that was compiled.
RegexpTokenizer__init__ShowsCompiled(c, pattern, gaps, discard_empty, flags) ==
    LET nongrouping_pattern == convert_regexp_to_nongrouping(pattern)
        r == re_compile(nongrouping_pattern, flags)
    IN  /\ pc = "new"
        /\ cls' = c
        /\ _pattern' = pattern
        /\ _gaps' = gaps
        /\ _discard_empty' = discard_empty
        /\ _flags' = flags
        /\ _regexp' = r.regexp
        /\ IF r.err = ""
           THEN pc' = "ready" /\ raised' = NoError
           ELSE pc' = "failed"
                /\ raised' = ValueError(nongrouping_pattern, r.err)
        /\ UNCHANGED <<calls, text, result>>

\* Variant: re.error is swallowed and the object is returned with
\* self._regexp still None.
RegexpTokenizer__init__Swallow(c, pattern, gaps, discard_empty, flags) ==
    LET nongrouping_pattern == convert_regexp_to_nongrouping(pattern)
        r == re_compile(nongrouping_pattern, flags)
    IN  /\ pc = "new"
        /\ cls' = c
        /\ _pattern' = pattern
        /\ _gaps' = gaps
        /\ _discard_empty' = discard_empty
        /\ _flags' = flags
        /\ _regexp' = r.regexp
        /\ pc' = "ready"
        /\ raised' = NoError
        /\ UNCHANGED <<calls, text, result>>

\* RegexpTokenizer.__init__ on an object of class c.
\* (pattern is a string here, so getattr(pattern, 'pattern', pattern) is
\* pattern itself.)
RegexpTokenizer__init__(c, pattern, gaps, discard_empty, flags) ==
    LET nongrouping_pattern == convert_regexp_to_nongrouping(pattern)
        r == re_compile(nongrouping_pattern, flags)
    IN  /\ pc = "new"
        /\ cls' = c
        /\ _pattern' = pattern
        /\ _gaps' = gaps
        /\ _discard_empty' = discard_empty
        /\ _flags' = flags
        /\ _regexp' = r.regexp
        /\ IF r.err = ""
           THEN pc' = "ready" /\ raised' = NoError
           ELSE pc' = "failed" /\ raised' = ValueError(pattern, r.err)
        /\ UNCHANGED <<calls, text, result>>

RegexpTokenizer ==
    \E p \in Patterns, g \in BOOLEAN, d \in BOOLEAN, f \in FlagSets :
        RegexpTokenizer__init__("RegexpTokenizer", p, g, d, f)

WhitespaceTokenizer ==
    RegexpTokenizer__init__("WhitespaceTokenizer", WhitespacePattern,
                            TRUE, TRUE, DefaultFlags)

BlanklineTokenizer ==
    RegexpTokenizer__init__("BlanklineTokenizer", BlanklinePattern,
                            TRUE, TRUE, DefaultFlags)

WordPunctTokenizer ==
    RegexpTokenizer__init__("WordPunctTokenizer", WordPunctPattern,
                            FALSE, TRUE, DefaultFlags)

WordTokenizer ==
    RegexpTokenizer__init__("WordTokenizer", WordPattern,
                            FALSE, TRUE, DefaultFlags)

\* Variant: tokenize switches discard_empty off for the later calls.
tokenizeMutating(t) ==
    /\ pc = "ready"
    /\ calls < MaxCalls
    /\ calls' = calls + 1
    /\ text' = t
    /\ result' = TokenizeResult(_regexp, _gaps, _discard_empty, t)
    /\ raised' = NoError
    /\ _discard_empty' = FALSE
    /\ UNCHANGED <<pc, cls, _pattern, _gaps, _flags, _regexp>>

\* RegexpTokenizer.tokenize(text) on the tokenizer the caller holds.
\* self._regexp.split / findall raise AttributeError when self._regexp is
\* None.
tokenize(t) ==
    /\ pc = "ready"
    /\ calls < MaxCalls
    /\ calls' = calls + 1
    /\ text' = t
    /\ IF _regexp.compiled
       THEN /\ result' = TokenizeResult(_regexp, _gaps, _discard_empty, t)
            /\ raised' = NoError
       ELSE /\ result' = <<>>
            /\ raised' = AttributeError
    /\ UNCHANGED <<pc, cls, _pattern, _gaps, _discard_empty, _flags, _regexp>>

Tokenize == \E t \in CallTexts : tokenize(t)

\* The one application of tokenize to the text drawn initially.
TokenizeOnce == calls = 0 /\ tokenize(text)

\* regexp_tokenize(text, pattern, gaps, discard_empty, flags)
regexp_tokenize(t, pattern, gaps, discard_empty, flags) ==
    LET r == re_compile(convert_regexp_to_nongrouping(pattern), flags)
    IN  /\ pc = "new"
        /\ cls' = "RegexpTokenizer"
        /\ _pattern' = pattern
        /\ _gaps' = gaps
        /\ _discard_empty' = discard_empty
        /\ _flags' = flags
        /\ _regexp' = r.regexp
        /\ text' = t
        /\ UNCHANGED calls
        /\ IF r.err = ""
           THEN /\ pc' = "oneshot"
                /\ raised' = NoError
                /\ result' = TokenizeResult(r.regexp, gaps, discard_empty, t)
           ELSE /\ pc' = "failed"
                /\ raised' = ValueError(pattern, r.err)
                /\ result' = <<>>

RegexpTokenize ==
    \E t \in CallTexts, p \in Patterns, g \in BOOLEAN, d \in BOOLEAN,
       f \in FlagSets : regexp_tokenize(t, p, g, d, f)

Next ==
    \/ RegexpTokenizer
    \/ WhitespaceTokenizer
    \/ BlanklineTokenizer
    \/ WordPunctTokenizer
    \/ WordTokenizer
    \/ Tokenize
    \/ RegexpTokenize

Spec == Init /\ [][Next]_vars

NextPure ==
    \/ RegexpTokenizer
    \/ WhitespaceTokenizer
    \/ BlanklineTokenizer
    \/ WordPunctTokenizer
    \/ WordTokenizer
    \/ TokenizeOnce

SpecPure == InitPure /\ [][NextPure]_vars

\* ------------------------------------------------------------------------
\* Properties
\* ------------------------------------------------------------------------
\* tokenize has returned on a tokenizer the caller holds.
Returned == pc = "ready" /\ calls > 0

\* The matcher a fresh construction with the stored configuration compiles.
FreshRegexp == re_compile(convert_regexp_to_nongrouping(_pattern), _flags).regexp

\* token0 delim0 token1 delim1 ... tokenN
RECURSIVE Interleave(_, _)
Interleave(toks, delims) ==
    IF toks = <<>> THEN <<>>
    ELSE IF delims = <<>> THEN Head(toks) \o Interleave(Tail(toks), <<>>)
    ELSE Head(toks) \o Head(delims) \o Interleave(Tail(toks), Tail(delims))

MatchText(m) == Slice(text, m.s, m.e)
IsNonEmptyMatch(m) == m.e > m.s
AllMatches == MatchList(_regexp, text, 0)
DelimTexts(ms) == [j \in 1..Len(ms) |-> MatchText(ms[j])]

\* C1 as stated: in gap mode without discarding, tokenize returns one more
\* token than the pattern has non-overlapping matches in the text, and the
\* tokens interleaved with the matches give the text back.
C1_Original ==
    (Returned /\ _gaps /\ ~_discard_empty) =>
        /\ Len(result) = Len(AllMatches) + 1
        /\ Interleave(result, DelimTexts(AllMatches)) = text

\* C1 amended: in gap mode without discarding, tokenize returns one more
\* token than the pattern has non-empty non-overlapping matches in the text
\* (an empty match is not a delimiter), and the tokens interleaved with these
\* matches give the text back; empty tokens are retained.
C1_SplitReconstructs ==
    (Returned /\ _gaps /\ ~_discard_empty) =>
        LET delims == SelectSeq(AllMatches, IsNonEmptyMatch)
        IN  /\ Len(result) = Len(delims) + 1
            /\ Interleave(result, DelimTexts(delims)) = text

\* Adjacent delimiters and delimiters at both ends: only empty tokens.
C1_Witness ==
    /\ Returned /\ _gaps /\ ~_discard_empty
    /\ _pattern = <<"a">>
    /\ text = <<"a", "a">>
    /\ result = << <<>>, <<>>, <<>> >>

IsNonEmptyTok(tok) == tok # <<>>

\* C2: in gap mode with discarding, tokenize returns no empty string, and
\* returns what the same tokenizer without discarding returns, less the
\* empty strings, in the same order.
C2_NoEmptyTokens ==
    (Returned /\ _gaps /\ _discard_empty) =>
        /\ \A j \in 1..Len(result) : result[j] # <<>>
        /\ result = SelectSeq(TokenizeResult(FreshRegexp, TRUE, FALSE, text),
                              IsNonEmptyTok)

\* A text made only of delimiters gives the empty list.
C2_Witness ==
    /\ Returned /\ _gaps /\ _discard_empty
    /\ text # <<>>
    /\ result = <<>>
    /\ Len(TokenizeResult(FreshRegexp, TRUE, FALSE, text)) > 1

\* The whole of tok is a match of the compiled pattern.
FullMatch(regexp, tok) ==
    LET ends == Matches(regexp.ast, tok,
                        St(0, [k \in 1..regexp.groups |-> NoSpan]),
                        regexp.flags)
    IN  \E j \in 1..Len(ends) : ends[j].pos = Len(tok)

\* The tokens occur in the text one after the other, from offset from on,
\* without overlap.
RECURSIVE Placed(_, _, _)
Placed(toks, txt, from) ==
    \/ toks = <<>>
    \/ \E st \in from..(Len(txt) - Len(Head(toks))) :
          /\ Slice(txt, st, st + Len(Head(toks))) = Head(toks)
          /\ Placed(Tail(toks), txt, st + Len(Head(toks)))

\* C3: in token mode every returned token is a substring of the text that
\* matches the compiled pattern, and the tokens lie in the text from left to
\* right without overlap.
C3_TokensAreMatches ==
    (Returned /\ ~_gaps) =>
        /\ \A j \in 1..Len(result) : FullMatch(_regexp, result[j])
        /\ Placed(result, text, 0)

C3_Witness ==
    /\ Returned /\ ~_gaps
    /\ Len(result) >= 2
    /\ \A j \in 1..Len(result) : result[j] # <<>>
    /\ Len(Interleave(result, <<>>)) < Len(text)

\* The pattern tree with every capturing group made non-capturing.
RECURSIVE Uncapture(_)
Uncapture(node) ==
    IF node.op \in {"cat", "alt"}
    THEN [node EXCEPT !.items =
              [j \in 1..Len(node.items) |-> Uncapture(node.items[j])]]
    ELSE IF node.op = "rep"
         THEN [node EXCEPT !.body = Uncapture(node.body)]
    ELSE IF node.op = "grp" THEN Grp(0, Uncapture(node.body))
    ELSE node

\* The matcher of the pattern as written, its groups made non-capturing in
\* the tree.
UncapturedRegexp ==
    [compiled |-> TRUE, ast |-> Uncapture(Parse(_pattern).node),
     groups |-> 0, flags |-> _flags]

PatternAbc == <<"(","a",")","(","b",")","(","c",")">>

\* C4: a tokenizer whose pattern has capturing groups returns, in both
\* modes, what the pattern with these groups made non-capturing returns:
\* whole matches in token mode, no group text in gap mode; (a)(b)(c) on
\* "abc" gives ["abc"].
C4_GroupsDoNotMatter ==
    (Returned /\ Parse(_pattern).g > 0) =>
        /\ result = TokenizeResult(UncapturedRegexp, _gaps, _discard_empty,
                                   text)
        /\ (_pattern = PatternAbc /\ text = TextAbc /\ ~_gaps)
               => result = <<TextAbc>>

\* A match of a pattern with several groups, one of them nested.
C4_Witness ==
    /\ Returned
    /\ Parse(_pattern).g > 1
    /\ \E j \in 1..Len(AllMatches) : IsNonEmptyMatch(AllMatches[j])
    /\ result # <<>>

PatternUnbalanced == <<"(","u","n","b","a","l","a","n","c","e","d">>

\* C5: when the non-grouping form of the pattern does not compile, the
\* construction raises the pattern error (ValueError), whatever gaps,
\* discard_empty and flags are; the error carries the pattern as given and
\* the message of the compiler, and the caller gets no tokenizer.
C5_ConstructionFails ==
    LET c == re_compile(convert_regexp_to_nongrouping(_pattern), _flags)
    IN  /\ (pc # "new" /\ c.err # "") =>
               /\ pc = "failed"
               /\ calls = 0
               /\ raised = ValueError(_pattern, c.err)
        /\ (pc # "new" /\ _pattern = PatternUnbalanced) =>
               /\ pc = "failed"
               /\ raised.pattern = PatternUnbalanced
               /\ raised.msg = "unbalanced parenthesis"

C5_Witness ==
    /\ pc = "failed"
    /\ _pattern = PatternUnbalanced
    /\ _gaps
    /\ raised.type = "ValueError"
    /\ raised.pattern # convert_regexp_to_nongrouping(_pattern)

\* C6: an error is raised by a construction only: every tokenize call on a
\* constructed tokenizer, on any text and after any earlier calls, returns a
\* list of tokens and raises nothing.
C6_TokenizeNeverFails ==
    /\ raised # NoError => pc = "failed" /\ calls = 0
    /\ Returned =>
           /\ raised = NoError
           /\ _regexp.compiled
           /\ result \in Seq(Seq(WordChars \cup SpaceChars \cup {"'", "."}))

\* A later call, on the empty text.
C6_Witness ==
    /\ Returned
    /\ calls = MaxCalls
    /\ text = <<>>
    /\ raised = NoError

\* C8: a tokenize call leaves the pattern, the gaps and discard_empty flags,
\* the flags and the compiled matcher of the tokenizer unchanged, and
\* returns what a freshly constructed tokenizer of the same configuration
\* returns for the text.
C8_NoStateCarried ==
    /\ [](Returned =>
            result = TokenizeResult(FreshRegexp, _gaps, _discard_empty, text))
    /\ [][pc = "ready" => fields' = fields]_vars

\* A second call whose text differs from the result it gives.
C8_Witness ==
    /\ Returned
    /\ calls = MaxCalls
    /\ _gaps /\ _discard_empty
    /\ result # <<>>
    /\ result # <<text>>

TokShe == <<"S","h","e">>
TokSaid == <<"s","a","i","d">>
TokHello == <<"h","e","l","l","o">>

\* C7 as stated: WordPunctTokenizer splits "She said 'hello'." into six
\* tokens, the closing quote and the period apart.
C7_Original ==
    (Returned /\ cls = "WordPunctTokenizer" /\ text = TextShe) =>
        result = <<TokShe, TokSaid, <<"'">>, TokHello, <<"'">>, <<".">>>>

\* C7 amended: WordPunctTokenizer splits "She said 'hello'." into the five
\* tokens She, said, ', hello, '. -- the closing quote and the period form
\* one token, as the docstring of the class shows.
C7_FiveTokens ==
    (Returned /\ cls = "WordPunctTokenizer" /\ text = TextShe) =>
        result = <<TokShe, TokSaid, <<"'">>, TokHello, <<"'", ".">>>>

C7_Witness ==
    /\ Returned
    /\ cls = "WordPunctTokenizer"
    /\ text = TextShe
    /\ Len(result) = 5

\* tok holds a blank line: two newlines with only whitespace between them.
HasBlankLine(tok) ==
    \E i \in 1..Len(tok), j \in 1..Len(tok) :
        /\ i < j
        /\ tok[i] = "\n"
        /\ tok[j] = "\n"
        /\ \A k \in (i + 1)..(j - 1) : tok[k] \in SpaceChars

TokParaOne == <<"p","a","r","a"," ","o","n","e">>
TokParaTwo == <<"p","a","r","a"," ","t","w","o">>
TokParaThree == <<"p","a","r","a"," ","t","h","r","e","e">>

\* C9: BlanklineTokenizer returns no empty token and no token that holds a
\* blank line, a line of spaces or tabs counting as blank; the three
\* paragraphs of the example come out as three tokens.
C9_BlanklineSplits ==
    (Returned /\ cls = "BlanklineTokenizer") =>
        /\ \A j \in 1..Len(result) :
              result[j] # <<>> /\ ~HasBlankLine(result[j])
        /\ text = TextPara => result = <<TokParaOne, TokParaTwo, TokParaThree>>
        /\ text = TextTabs => result = << <<"a">>, <<"b">> >>

\* The text holds a blank line made of a space.
C9_Witness ==
    /\ Returned
    /\ cls = "BlanklineTokenizer"
    /\ text = TextPara
    /\ Len(result) = 3

\* C10: in token mode tokenize returns no empty string, whatever
\* discard_empty is.
C10_NoEmptyTokenInTokenMode ==
    (Returned /\ ~_gaps) => \A j \in 1..Len(result) : result[j] # <<>>

====
